---- MODULE Spec2Model ----
(***************************************************************************)
(* Model of wieserlabsdds/pulse.py: PulseSequence (add_pulse, generate,    *)
(* run) and QubitPulseSequence (add_pulse, add_x_pulse, add_y_pulse)       *)
(* driving a WieserlabsClient.  The client is the device port: it is  *)
(* modelled as the ordered log of the calls PulseSequence makes on it,     *)
(* each call recorded with exactly the arguments the source passes.        *)
(*                                                                         *)
(* Spec starts from the instance as __init__ leaves it.  __init__ never     *)
(* assigns self.channel, so generate on a non-empty list raises            *)
(* AttributeError before its first device call; SpecChannelAssigned starts *)
(* from the instance after the caller has assigned that attribute, and is  *)
(* where the body of generate (lines 165-188) is exercised.                *)
(*                                                                         *)
(* Units: frequencies in MHz, amplitudes in percent, phases in degrees,    *)
(* durations in microseconds, angles in quarters of pi, so that every      *)
(* value is an integer.                                                    *)
(***************************************************************************)
EXTENDS Integers, Sequences, FiniteSets, TLC

\* ---------------------------------------------------------------- bounds
MaxPulses == 2
MaxCalls == 2

\* ------------------------------------------------------ program constants
\* Python's None for an omitted numeric argument (every real value is >= 0).
None == -1
\* default_freq=1e6 Hz and default_amp=1 of PulseSequence.__init__
DefaultFreq == 1
DefaultAmp == 100
\* generate(self, trigger_option=1, trigger=[TriggerEvent.BNC_IN_A_RISING])
DefaultTriggerOption == 1
DefaultTrigger == <<"BNC_IN_A_RISING">>
\* numpy.pi, in the unit of the angles (a quarter of pi)
pi == 4

\* ------------------------------------------------------------ input sets
\* slots and channels are drawn from disjoint ranges, so that an operation
\* addressed to the wrong one of the two is visible
Slots == {3}
Channels == {0}
TriggerOptions == {0, 1, 2}
Triggers == {<<"BNC_IN_A_RISING">>, <<"BNC_IN_B_RISING", "BNC_IN_C_RISING">>}
\* argument tuples <<trigger_option, trigger>> handed to generate; trigger is
\* only read when trigger_option is not 0 (line 171)
GenerateArgs ==
    {<<o, tr>> \in TriggerOptions \X Triggers : o = 0 => tr = DefaultTrigger}
\* argument tuples <<t, freq, amp, phase>> handed to add_pulse
AddPulseArgs ==
    { <<1, None, None, 0>>, <<2, 2, 50, 90>>, <<3, None, 0, 45>> }
\* argument tuples <<pi_pulse_time, freq, amp>> of QubitPulseSequence.__init__
QubitArgs == { <<8, 5, 80>> }
\* rotation axes phi and rotation angles theta handed to the rotation adds
Phis == {0, pi \div 2}
Thetas == {0, pi}

\* An instance attribute that __init__ may leave unassigned is a sequence:
\* <<>> while the instance has no attribute of that name (reading it raises
\* AttributeError), <<v>> once it has been assigned v.
NoAttr == <<>>
Attr(v) == <<v>>

VARIABLES
    args,          \* the slot and channel passed to the constructor
    slot,          \* self.slot
    channel,       \* self.channel: NoAttr or Attr(v)
    default_freq,  \* self.default_freq
    default_amp,   \* self.default_amp
    pulses,        \* self.pulses
    generated,     \* self.generated
    qubit,         \* self.freq, self.amp, self.pi_pulse_time of a
                   \* QubitPulseSequence; NoAttr on a plain PulseSequence
    ops,           \* the device port: every call accepted by self.dds, in order
    last,          \* the last call on the sequence and how it ended
    ncalls,        \* generate/run calls made so far
    failed         \* the device port has raised on a call

vars == <<args, slot, channel, default_freq, default_amp, pulses, generated,
          qubit, ops, last, ncalls, failed>>

\* Pulse.__init__
Pulse(freq, amp, phase, t) == [freq |-> freq, amp |-> amp, phase |-> phase, t |-> t]

\* Python subscript seq[i] for i in -len..len-1
PyIndex(seq, i) == IF i < 0 THEN seq[Len(seq) + i + 1] ELSE seq[i + 1]

\* ------------------------------------------------- calls on the device port
single_tone(s, c, freq, amp, phase, suffix) ==
    [op |-> "single_tone", slot |-> s, channel |-> c, freq |-> freq,
     amp |-> amp, phase |-> phase, suffix |-> suffix]

push_update(s, c) == [op |-> "push_update", slot |-> s, channel |-> c]

\* the source calls wait_time(t, update_before_wait=False): no slot, no channel
wait_time(t, ubw) == [op |-> "wait_time", t |-> t, update_before_wait |-> ubw]

wait_trigger(s, c, trigger, ubw) ==
    [op |-> "wait_trigger", slot |-> s, channel |-> c, trigger |-> trigger,
     update_before_wait |-> ubw]

dds_run(s) == [op |-> "run", slot |-> s]

\* ------------------------------------------------------------- generate
\* FirstPulseCalls with suffix="c" whatever trigger_option is
FirstPulseCalls_AlwaysC(ps, s, c, trigger_option, trigger) ==
    LET p == PyIndex(ps, 0) IN
    <<single_tone(s, c, p.freq, p.amp, p.phase, "c")>>
    \o (IF trigger_option = 0
        THEN <<push_update(s, c)>>
        ELSE <<wait_trigger(s, c, trigger, FALSE), push_update(s, c)>>)

\* lines 163-172: the first pulse and its start
FirstPulseCalls(ps, s, c, trigger_option, trigger) ==
    LET p == PyIndex(ps, 0) IN
    <<single_tone(s, c, p.freq, p.amp, p.phase,
                  IF trigger_option = 0 THEN "None" ELSE "c")>>
    \o (IF trigger_option = 0
        THEN <<push_update(s, c)>>
        ELSE <<wait_trigger(s, c, trigger, FALSE), push_update(s, c)>>)

\* LoopBodyCalls with the push_update of line 180 missing
LoopBodyCalls_NoUpdate(ps, s, c, i) ==
    LET p == PyIndex(ps, i) IN
    <<single_tone(s, c, p.freq, p.amp, p.phase, "c"),
      wait_time(PyIndex(ps, i - 1).t, FALSE)>>

\* lines 176-180: one iteration of the loop, i in range(len(self.pulses))
LoopBodyCalls(ps, s, c, i) ==
    LET p == PyIndex(ps, i) IN
    <<single_tone(s, c, p.freq, p.amp, p.phase, "c"),
      wait_time(PyIndex(ps, i - 1).t, FALSE),
      push_update(s, c)>>

RECURSIVE LoopCalls(_, _, _, _)
\* iterations i, i+1, ..., len(self.pulses)-1 of the loop
LoopCalls(ps, s, c, i) ==
    IF i >= Len(ps) THEN <<>>
    ELSE LoopBodyCalls(ps, s, c, i) \o LoopCalls(ps, s, c, i + 1)

\* lines 183-186: p is the loop variable after the loop, self.pulses[len-1]
TurnOffCalls(ps, s, c) ==
    LET p == PyIndex(ps, Len(ps) - 1) IN
    <<single_tone(s, c, p.freq, 0, p.phase, "c"),
      wait_time(PyIndex(ps, -1).t, FALSE),
      push_update(s, c)>>

\* lines 163-186: every call generate makes on the device port, in order
GenerateCalls(ps, s, c, trigger_option, trigger) ==
    FirstPulseCalls(ps, s, c, trigger_option, trigger)
    \o LoopCalls(ps, s, c, 0)
    \o TurnOffCalls(ps, s, c)

WarnTwice == "generate called multiple times"
WarnEmpty == "no pulses"

\* EmptyReturn with the early return of line 161 missing
EmptyReturn_Never(ps) == FALSE

\* line 159: generate warns and returns before any device call
EmptyReturn(ps) == Len(ps) = 0

\* Delivered with the failure swallowed and the remaining calls still made
Delivered_Retry(calls, failAt) ==
    SubSeq(calls, 1, failAt - 1) \o SubSeq(calls, failAt, Len(calls))

\* generate has no try/except: the calls of lines 165-186 that the device port
\* accepted when it raises on the failAt-th are the ones before it
Delivered(calls, failAt) == SubSeq(calls, 1, failAt - 1)

\* GenerateOutcome with the warning of lines 156-157 followed by a return
GenerateOutcome_OneShot(ps, gen, s, c, trigger_option, trigger, failAt) ==
    LET diag0 == IF gen THEN <<WarnTwice>> ELSE <<>> IN
    IF gen
    THEN [emitted |-> <<>>, generated |-> gen, exc |-> "none", diag |-> diag0]
    ELSE IF EmptyReturn(ps)
    THEN [emitted |-> <<>>, generated |-> gen, exc |-> "none",
          diag |-> diag0 \o <<WarnEmpty>>]
    ELSE IF c = NoAttr
    THEN [emitted |-> <<>>, generated |-> gen, exc |-> "AttributeError",
          diag |-> diag0]
    ELSE LET calls == GenerateCalls(ps, s, c[1], trigger_option, trigger) IN
         IF failAt \in 1..Len(calls)
         THEN [emitted |-> Delivered(calls, failAt), generated |-> gen,
               exc |-> "DeviceError", diag |-> diag0]
         ELSE [emitted |-> calls, generated |-> TRUE, exc |-> "none",
               diag |-> diag0]

\* GenerateOutcome with self.generated = True assigned before the early return
GenerateOutcome_FlagOnEmpty(ps, gen, s, c, trigger_option, trigger, failAt) ==
    LET diag0 == IF gen THEN <<WarnTwice>> ELSE <<>> IN
    IF EmptyReturn(ps)
    THEN [emitted |-> <<>>, generated |-> TRUE, exc |-> "none",
          diag |-> diag0 \o <<WarnEmpty>>]
    ELSE IF c = NoAttr
    THEN [emitted |-> <<>>, generated |-> gen, exc |-> "AttributeError",
          diag |-> diag0]
    ELSE LET calls == GenerateCalls(ps, s, c[1], trigger_option, trigger) IN
         IF failAt \in 1..Len(calls)
         THEN [emitted |-> Delivered(calls, failAt), generated |-> gen,
               exc |-> "DeviceError", diag |-> diag0]
         ELSE [emitted |-> calls, generated |-> TRUE, exc |-> "none",
               diag |-> diag0]

\* The outcome of generate(trigger_option, trigger), lines 156-188, on an
\* instance whose attributes are ps, gen, s, c, when the device port raises on
\* its failAt-th call of this generate (failAt = 0: it raises on none).
\*   emitted: the calls the port accepted;  generated: self.generated after;
\*   exc: the exception that reaches the caller;  diag: the warnings printed
\* Line 165 reads self.channel before the first device call.
GenerateOutcome(ps, gen, s, c, trigger_option, trigger, failAt) ==
    LET diag0 == IF gen THEN <<WarnTwice>> ELSE <<>> IN
    IF EmptyReturn(ps)
    THEN [emitted |-> <<>>, generated |-> gen, exc |-> "none",
          diag |-> diag0 \o <<WarnEmpty>>]
    ELSE IF c = NoAttr
    THEN [emitted |-> <<>>, generated |-> gen, exc |-> "AttributeError",
          diag |-> diag0]
    ELSE LET calls == GenerateCalls(ps, s, c[1], trigger_option, trigger) IN
         IF failAt \in 1..Len(calls)
         THEN [emitted |-> Delivered(calls, failAt), generated |-> gen,
               exc |-> "DeviceError", diag |-> diag0]
         ELSE [emitted |-> calls, generated |-> TRUE, exc |-> "none",
               diag |-> diag0]

\* number of device calls generate(trigger_option) makes on the pulse list ps:
\* 2 or 3 for the first pulse, 3 per loop iteration, 3 for the turn-off
NCalls(ps, trigger_option) ==
    IF Len(ps) = 0 THEN 0
    ELSE (IF trigger_option = 0 THEN 2 ELSE 3) + 3 * Len(ps) + 3

\* The device port may raise on any one of the n calls made on it (0: on none).
\* A failure of the port ends the use of the sequence: recovery is left to the
\* caller, and the caller modelled here makes no further call on the instance.
FailPoints(n) == 0..n

\* ---------------------------------------------------------------- state
\* self.slot after lines 118-119: the second assignment overwrites the first
SlotAfterInit(slotArg, channelArg) == channelArg

\* PulseSequence.__init__(dds, slot, channel): line 118 assigns self.slot = slot,
\* line 119 assigns self.slot = channel; self.channel is never assigned.
\* default_freq and default_amp are the parameters of __init__ of that name.
Constructed(slotArg, channelArg, dfreq, damp) ==
    /\ args = [slot |-> slotArg, channel |-> channelArg]
    /\ slot = SlotAfterInit(slotArg, channelArg)
    /\ default_freq = dfreq
    /\ default_amp = damp
    /\ pulses = <<>>
    /\ generated = FALSE
    /\ ops = <<>>
    /\ last = [call |-> "__init__", trigger_option |-> DefaultTriggerOption,
               trigger |-> DefaultTrigger, from |-> 0, was_generated |-> FALSE,
               exc |-> "none", diag |-> <<>>, pulses |-> <<>>, argv |-> <<>>]
    /\ ncalls = 0
    /\ failed = FALSE

\* PulseSequence(dds, slot, channel) with the default default_freq, default_amp
ConstructedPulseSequence(slotArg, channelArg) ==
    /\ Constructed(slotArg, channelArg, DefaultFreq, DefaultAmp)
    /\ qubit = NoAttr

\* QubitPulseSequence(dds, slot, channel, pi_pulse_time, freq, amp), lines 235-238
ConstructedQubitPulseSequence(slotArg, channelArg, ppt, f, a) ==
    /\ Constructed(slotArg, channelArg, f, a)
    /\ qubit = Attr([freq |-> f, amp |-> a, pi_pulse_time |-> ppt])

\* an instance of either class
ConstructedAny(slotArg, channelArg) ==
    \/ ConstructedPulseSequence(slotArg, channelArg)
    \/ \E q \in QubitArgs :
          ConstructedQubitPulseSequence(slotArg, channelArg, q[1], q[2], q[3])

Init ==
    \E s \in Slots, c \in Channels :
        /\ ConstructedAny(s, c)
        /\ channel = NoAttr

\* The instance after the caller has assigned the missing attribute itself
\* (seq.channel = channel), the only way generate gets past line 165.
InitChannelAssigned ==
    \E s \in Slots, c \in Channels :
        /\ ConstructedAny(s, c)
        /\ channel = Attr(c)

\* what an add call leaves in last
Added(call, argv) ==
    [call |-> call, trigger_option |-> DefaultTriggerOption,
     trigger |-> DefaultTrigger, from |-> Len(ops),
     was_generated |-> generated, exc |-> "none", diag |-> <<>>,
     pulses |-> pulses, argv |-> argv]

\* OrDefault with the test written as a truth test (not arg), which also
\* replaces an explicit 0
OrDefault_Falsy(arg, default) == IF arg = None \/ arg = 0 THEN default ELSE arg

\* lines 130-131: the value used for an optional argument
OrDefault(arg, default) == IF arg = None THEN default ELSE arg

\* PulseSequence.add_pulse(t, freq, amp, phase), lines 130-132
\* (QubitPulseSequence overrides it)
AddPulse(t, freq, amp, phase) ==
    /\ ~failed
    /\ qubit = NoAttr
    /\ Len(pulses) < MaxPulses
    /\ pulses' = Append(pulses, Pulse(OrDefault(freq, default_freq),
                                      OrDefault(amp, default_amp), phase, t))
    /\ last' = Added("add_pulse", <<t, freq, amp, phase>>)
    /\ UNCHANGED <<args, slot, channel, default_freq, default_amp, generated,
                   qubit, ops, ncalls, failed>>

\* XPulse.__init__(freq, amp, t), line 59
XPulse(freq, amp, t) == Pulse(freq, amp, 0, t)

\* YPulse with the phase of an X pulse
YPulse_AsX(freq, amp, t) == Pulse(freq, amp, 0, t)

\* YPulse.__init__(freq, amp, t), line 82
YPulse(freq, amp, t) == Pulse(freq, amp, 90, t)

\* QubitPulseSequence._angle_to_time(theta), line 247
angle_to_time(theta, ppt) == (theta * ppt) \div pi

\* line 259: the phase in degrees of the rotation axis phi
AxisPhase(phi) == (phi * 180) \div pi

\* line 259: the pulse add_pulse(phi, theta) appends on an instance whose
\* freq, amp and pi_pulse_time are those of q
RotationPulse(q, phi, theta) ==
    Pulse(q.freq, q.amp, AxisPhase(phi), angle_to_time(theta, q.pi_pulse_time))

\* QubitPulseSequence.add_pulse(phi, theta), line 259
AddQubitPulse(phi, theta) ==
    /\ ~failed
    /\ qubit # NoAttr
    /\ Len(pulses) < MaxPulses
    /\ pulses' = Append(pulses, RotationPulse(qubit[1], phi, theta))
    /\ last' = Added("qubit_add_pulse", <<phi, theta>>)
    /\ UNCHANGED <<args, slot, channel, default_freq, default_amp, generated,
                   qubit, ops, ncalls, failed>>

\* AddXPulse with the pulse inserted at the front of the list
AddXPulse_Prepend(theta) ==
    /\ ~failed
    /\ qubit # NoAttr
    /\ Len(pulses) < MaxPulses
    /\ pulses' = <<XPulse(qubit[1].freq, qubit[1].amp,
                          angle_to_time(theta, qubit[1].pi_pulse_time))>> \o pulses
    /\ last' = Added("add_x_pulse", <<theta>>)
    /\ UNCHANGED <<args, slot, channel, default_freq, default_amp, generated,
                   qubit, ops, ncalls, failed>>

\* QubitPulseSequence.add_x_pulse(theta), line 268
AddXPulse(theta) ==
    /\ ~failed
    /\ qubit # NoAttr
    /\ Len(pulses) < MaxPulses
    /\ pulses' = Append(pulses, XPulse(qubit[1].freq, qubit[1].amp,
                                       angle_to_time(theta, qubit[1].pi_pulse_time)))
    /\ last' = Added("add_x_pulse", <<theta>>)
    /\ UNCHANGED <<args, slot, channel, default_freq, default_amp, generated,
                   qubit, ops, ncalls, failed>>

\* QubitPulseSequence.add_y_pulse(theta), line 277
AddYPulse(theta) ==
    /\ ~failed
    /\ qubit # NoAttr
    /\ Len(pulses) < MaxPulses
    /\ pulses' = Append(pulses, YPulse(qubit[1].freq, qubit[1].amp,
                                       angle_to_time(theta, qubit[1].pi_pulse_time)))
    /\ last' = Added("add_y_pulse", <<theta>>)
    /\ UNCHANGED <<args, slot, channel, default_freq, default_amp, generated,
                   qubit, ops, ncalls, failed>>

\* generate(trigger_option, trigger), lines 156-188
Generate(trigger_option, trigger, failAt) ==
    /\ ~failed
    /\ ncalls < MaxCalls
    /\ LET r == GenerateOutcome(pulses, generated, slot, channel,
                                trigger_option, trigger, failAt)
       IN /\ ops' = ops \o r.emitted
          /\ generated' = r.generated
          /\ failed' = (r.exc = "DeviceError")
          /\ last' = [call |-> "generate", trigger_option |-> trigger_option,
                      trigger |-> trigger, from |-> Len(ops),
                      was_generated |-> generated, exc |-> r.exc,
                      diag |-> r.diag, pulses |-> pulses, argv |-> <<>>]
    /\ ncalls' = ncalls + 1
    /\ UNCHANGED <<args, slot, channel, default_freq, default_amp, pulses, qubit>>

\* RunGenerates with the test of self.generated missing
RunGenerates_Always(gen) == TRUE

\* line 195: run calls generate first when this holds
RunGenerates(gen) == ~gen

\* run(), lines 195-196; failAt counts the calls of the nested generate first
Run(failAt) ==
    /\ ~failed
    /\ ncalls < MaxCalls
    /\ LET g == IF ~RunGenerates(generated)
                THEN [emitted |-> <<>>, generated |-> generated,
                      exc |-> "none", diag |-> <<>>]
                ELSE GenerateOutcome(pulses, generated, slot, channel,
                                     DefaultTriggerOption, DefaultTrigger, failAt)
           runFails == g.exc = "none" /\ failAt = Len(g.emitted) + 1
           exc == IF g.exc # "none" THEN g.exc
                  ELSE IF runFails THEN "DeviceError" ELSE "none"
       IN /\ ops' = IF exc = "none" THEN ops \o g.emitted \o <<dds_run(slot)>>
                    ELSE ops \o g.emitted
          /\ generated' = g.generated
          /\ failed' = (exc = "DeviceError")
          /\ last' = [call |-> "run", trigger_option |-> DefaultTriggerOption,
                      trigger |-> DefaultTrigger, from |-> Len(ops),
                      was_generated |-> generated, exc |-> exc,
                      diag |-> g.diag, pulses |-> pulses, argv |-> <<>>]
    /\ ncalls' = ncalls + 1
    /\ UNCHANGED <<args, slot, channel, default_freq, default_amp, pulses, qubit>>

Next ==
    \/ \E a \in AddPulseArgs : AddPulse(a[1], a[2], a[3], a[4])
    \/ \E phi \in Phis, theta \in Thetas : AddQubitPulse(phi, theta)
    \/ \E theta \in Thetas : AddXPulse(theta)
    \/ \E theta \in Thetas : AddYPulse(theta)
    \* generate calls the device port does not fail, then those it fails
    \/ \E g \in GenerateArgs : Generate(g[1], g[2], 0)
    \/ \E o \in TriggerOptions : \E f \in 1..NCalls(pulses, o) :
          Generate(o, DefaultTrigger, f)
    \/ \E f \in FailPoints(NCalls(pulses, DefaultTriggerOption) + 1) : Run(f)

Spec == Init /\ [][Next]_vars

SpecChannelAssigned == InitChannelAssigned /\ [][Next]_vars

\* ------------------------------------------------------- reading the log
\* the device calls made by the last call on the sequence
Emitted == SubSeq(ops, last.from + 1, Len(ops))

\* The device operations of the specification, without their addressing:
\* stage (single_tone), commit (push_update), wait by duration (wait_time),
\* wait for trigger (wait_trigger) and start (run).
Stage(freq, amp, phase) == [kind |-> "stage", freq |-> freq, amp |-> amp, phase |-> phase]
Commit == [kind |-> "commit"]
WaitDuration(t) == [kind |-> "wait", seconds |-> t]
WaitTrigger(trigger) == [kind |-> "wait_trigger", trigger_ids |-> trigger]
Start == [kind |-> "start"]

View(o) ==
    CASE o.op = "single_tone" -> Stage(o.freq, o.amp, o.phase)
      [] o.op = "push_update" -> Commit
      [] o.op = "wait_time" -> WaitDuration(o.t)
      [] o.op = "wait_trigger" -> WaitTrigger(o.trigger)
      [] o.op = "run" -> Start

ViewAll(seq) == [i \in 1..Len(seq) |-> View(seq[i])]

\* how many operations of that kind the sequence holds
Count(seq, kind) == Cardinality({i \in 1..Len(seq) : View(seq[i]).kind = kind})

StageOf(p) == Stage(p.freq, p.amp, p.phase)
StageOff(p) == Stage(p.freq, 0, p.phase)

\* the slot and the channel an operation is addressed to, if it carries one
SlotOf(o) == IF o.op = "wait_time" THEN NoAttr ELSE Attr(o.slot)
ChannelOf(o) == IF o.op \in {"wait_time", "run"} THEN NoAttr ELSE Attr(o.channel)

\* a generate call on a non-empty list that the device port did not fail
GenerateCall(opts) ==
    /\ last.call = "generate"
    /\ last.trigger_option \in opts
    /\ Len(last.pulses) > 0
    /\ last.exc # "DeviceError"

RECURSIVE SteadyState(_, _)
\* [stage(p[i]), wait(p[i-1].duration), commit] for i = k..n-1 (k >= 1, 0-based)
SteadyState(ps, k) ==
    IF k >= Len(ps) THEN <<>>
    ELSE <<StageOf(ps[k + 1]), WaitDuration(ps[k].t), Commit>> \o SteadyState(ps, k + 1)

\* stage(p[0]), commit, [stage(p[i]), wait(p[i-1].duration), commit] for
\* i = 1..n-1, stage(off), wait(p[n-1].duration), commit
ImmediateStream(ps) ==
    <<StageOf(ps[1]), Commit>>
    \o SteadyState(ps, 1)
    \o <<StageOff(ps[Len(ps)]), WaitDuration(ps[Len(ps)].t), Commit>>

\* ------------------------------------------------------------------ claims

\* C1: one generate call under the Immediate policy on a fresh sequence with a
\* non-empty pulse list p[0..n-1] emits exactly stage(p[0]), commit,
\* [stage(p[i]), wait(p[i-1].duration), commit] for i = 1..n-1, stage(off),
\* wait(p[n-1].duration), commit, and nothing else.
C1_ImmediateStreamExact ==
    (GenerateCall({0}) /\ last.from = 0 /\ ~last.was_generated)
        => ViewAll(Emitted) = ImmediateStream(last.pulses)

\* What the code emits under the Immediate policy once the instance has a
\* channel attribute: the loop of line 176 starts at i = 0, so the steady state
\* is preceded by one more [stage(p[0]), wait(p[n-1].duration), commit].
ImmediateStreamOfCode ==
    (GenerateCall({0}) /\ last.exc = "none")
        => ViewAll(Emitted) =
              <<StageOf(last.pulses[1]), Commit>>
              \o <<StageOf(last.pulses[1]),
                   WaitDuration(last.pulses[Len(last.pulses)].t), Commit>>
              \o SteadyState(last.pulses, 1)
              \o <<StageOff(last.pulses[Len(last.pulses)]),
                   WaitDuration(last.pulses[Len(last.pulses)].t), Commit>>

\* C2: one generate call under the InitialTrigger or PerPulseTrigger policy on
\* a non-empty pulse list emits stage(p[0]), wait-for-trigger(trigger set),
\* commit as its first three operations, with no commit before the wait.
C2_TriggeredStart ==
    GenerateCall({1, 2})
        => /\ Len(Emitted) >= 3
           /\ ViewAll(SubSeq(Emitted, 1, 3)) =
                 <<StageOf(last.pulses[1]), WaitTrigger(last.trigger), Commit>>

\* C3: one generate call under the Immediate or InitialTrigger policy on a
\* pulse list of length n >= 1 emits exactly n+1 stage operations, n+1 commit
\* operations and n wait-by-duration operations.
C3_OperationCounts ==
    GenerateCall({0, 1})
        => /\ Count(Emitted, "stage") = Len(last.pulses) + 1
           /\ Count(Emitted, "commit") = Len(last.pulses) + 1
           /\ Count(Emitted, "wait") = Len(last.pulses)

\* What the code emits once the instance has a channel attribute: one stage,
\* one commit and one wait more than that.
OperationCountsOfCode ==
    (GenerateCall({0, 1, 2}) /\ last.exc = "none")
        => /\ Count(Emitted, "stage") = Len(last.pulses) + 2
           /\ Count(Emitted, "commit") = Len(last.pulses) + 2
           /\ Count(Emitted, "wait") = Len(last.pulses) + 1

\* C4: generate on a sequence whose pulse list is empty emits no device
\* operation under every trigger policy, returns without raising and leaves
\* the generated flag unchanged.
C4_EmptyGenerate ==
    (last.call = "generate" /\ Len(last.pulses) = 0)
        => /\ Emitted = <<>>
           /\ last.exc = "none"
           /\ generated = last.was_generated

C4_Witness ==
    /\ last.call = "generate"
    /\ Len(last.pulses) = 0
    /\ last.trigger_option = 2
    /\ ncalls = 2
    /\ ops = <<>>

\* C5: run on a sequence whose generated flag is already true does not invoke
\* generate again: the only device operation of that run call is start(slot),
\* so no stage, wait or commit is emitted by it, however many run calls follow
\* one another.
C5_RunDoesNotRegenerate ==
    (last.call = "run" /\ last.was_generated)
        => /\ last.diag = <<>>
           /\ ViewAll(Emitted) = (IF last.exc = "none" THEN <<Start>> ELSE <<>>)
           /\ generated

C5_Witness ==
    /\ last.call = "run"
    /\ last.was_generated
    /\ ncalls = 2
    /\ ViewAll(Emitted) = <<Start>>
    /\ Count(ops, "start") = 2

\* C6: an explicit generate call on a sequence whose generated flag is already
\* true does not fail and is not suppressed: it warns, emits the complete
\* operation stream for the current pulse list once more, and the flag stays
\* true.
C6_RegenerateReemits ==
    (GenerateCall({0, 1, 2}) /\ last.was_generated)
        => /\ last.exc = "none"
           /\ last.diag = <<WarnTwice>>
           /\ generated
           /\ Len(Emitted) > 0
           /\ Emitted = GenerateCalls(pulses, slot, channel[1],
                                      last.trigger_option, last.trigger)

C6_Witness ==
    /\ GenerateCall({0})
    /\ last.was_generated
    /\ Len(pulses) = 2
    /\ last.from > 0
    /\ Len(ops) > last.from
    /\ generated

\* C7: under the PerPulseTrigger policy every pulse boundary is driven by a
\* trigger: generate emits no wait-by-duration operation, every wait between a
\* stage and its commit is a wait-for-trigger.
C7_PerPulseTriggerWaits ==
    (GenerateCall({2}) /\ last.exc = "none")
        => /\ Count(Emitted, "wait") = 0
           /\ \A i \in 2..Len(Emitted) :
                 View(Emitted[i]).kind = "commit"
                     => View(Emitted[i - 1]).kind = "wait_trigger"

\* C8: for every non-empty pulse list and every trigger policy the last three
\* operations of one generate call are stage(p[n-1].frequency, amplitude 0,
\* p[n-1].phase), wait(p[n-1].duration), commit.
C8_TurnOffLast ==
    GenerateCall({0, 1, 2})
        => /\ Len(Emitted) >= 3
           /\ ViewAll(SubSeq(Emitted, Len(Emitted) - 2, Len(Emitted))) =
                 <<StageOff(last.pulses[Len(last.pulses)]),
                   WaitDuration(last.pulses[Len(last.pulses)].t), Commit>>

\* C9: every device operation emitted by generate and run carries the slot
\* and, where the operation takes one, the channel passed to the constructor.
C9_AddressingPassedThrough ==
    \A i \in 1..Len(ops) :
        /\ SlotOf(ops[i]) = Attr(args.slot)
        /\ ops[i].op # "run" => ChannelOf(ops[i]) = Attr(args.channel)

\* C10: if the device port fails on some operation during generate, generate
\* emits no further operation and does not retry, the failure reaches the
\* caller, the operations delivered are a strict prefix of the full stream and
\* the generated flag keeps the value it had before the call.
C10_DeviceFailureStops ==
    (last.call = "generate" /\ failed)
        => /\ last.exc = "DeviceError"
           /\ generated = last.was_generated
           /\ LET full == GenerateCalls(pulses, slot, channel[1],
                                        last.trigger_option, last.trigger)
              IN /\ Len(Emitted) < Len(full)
                 /\ Emitted = SubSeq(full, 1, Len(Emitted))

C10_Witness ==
    /\ last.call = "generate"
    /\ failed
    /\ last.exc = "DeviceError"
    /\ Len(Emitted) = 4
    /\ Len(pulses) = 2
    /\ ~generated

\* the pulse at the end of the pulse list
Newest == pulses[Len(pulses)]

AddCalls == {"add_pulse", "qubit_add_pulse", "add_x_pulse", "add_y_pulse"}

\* C11: on a rotation sequence add_x_pulse(theta) appends the pulse that
\* add_pulse(phi = 0, theta) appends, with phase 0, and add_y_pulse(theta) the
\* pulse that add_pulse(phi = pi/2, theta) appends, with phase 90 degrees; the
\* duration is theta/pi times pi_pulse_time, so theta = 0 yields duration 0;
\* every such pulse has the frequency and amplitude fixed at construction.
C11_RotationMapping ==
    last.call \in {"qubit_add_pulse", "add_x_pulse", "add_y_pulse"} =>
        LET q == qubit[1]
            theta == last.argv[Len(last.argv)]
        IN /\ Newest.freq = q.freq /\ Newest.amp = q.amp
           /\ Newest.t * pi = theta * q.pi_pulse_time
           /\ theta = 0 => Newest.t = 0
           /\ last.call = "qubit_add_pulse" => Newest.phase * pi = last.argv[1] * 180
           /\ last.call = "add_x_pulse" =>
                 Newest.phase = 0 /\ Newest = RotationPulse(q, 0, theta)
           /\ last.call = "add_y_pulse" =>
                 Newest.phase = 90 /\ Newest = RotationPulse(q, pi \div 2, theta)

C11_Witness ==
    /\ last.call = "add_y_pulse"
    /\ last.argv = <<pi>>
    /\ Len(pulses) = 2
    /\ pulses[1] = RotationPulse(qubit[1], 0, 0)
    /\ Newest = Pulse(5, 80, 90, 8)

\* C12: PulseSequence.add_pulse(t, freq, amp, phase) appends a pulse whose
\* frequency is freq when given and default_freq when not, whose amplitude is
\* amp when given (an explicit 0 included) and default_amp when not, whose
\* phase is phase and whose duration is t.
C12_AddPulseDefaults ==
    last.call = "add_pulse" =>
        LET t == last.argv[1]
            f == last.argv[2]
            a == last.argv[3]
            ph == last.argv[4]
        IN /\ Newest.t = t
           /\ Newest.phase = ph
           /\ f # None => Newest.freq = f
           /\ f = None => Newest.freq = default_freq
           /\ a # None => Newest.amp = a
           /\ a = None => Newest.amp = default_amp

C12_Witness ==
    /\ last.call = "add_pulse"
    /\ last.argv = <<3, None, 0, 45>>
    /\ Newest = Pulse(DefaultFreq, 0, 45, 3)
    /\ Len(pulses) = 2
    /\ pulses[1] = Pulse(2, 50, 90, 2)

\* the positions of the operations of that kind in a sequence of device calls
Positions(seq, kind) == {i \in 1..Len(seq) : View(seq[i]).kind = kind}

\* the greatest element of a non-empty set of integers, and the least
Greatest(S) == CHOOSE x \in S : \A y \in S : y <= x
Least(S) == CHOOSE x \in S : \A y \in S : x <= y

RECURSIVE SumWaits(_, _, _)
\* the total of the wait-by-duration operations at positions a..b of seq
SumWaits(seq, a, b) ==
    IF a > b THEN 0
    ELSE (IF View(seq[a]).kind = "wait" THEN seq[a].t ELSE 0) + SumWaits(seq, a + 1, b)

\* the parameter set the commit at position j applies: the last one staged
StagedBefore(seq, j) == View(seq[Greatest({i \in Positions(seq, "stage") : i < j})])

\* the commits of seq that are followed by another commit
InnerCommits(seq) ==
    {j \in Positions(seq, "commit") : \E i \in Positions(seq, "commit") : i > j}

\* the wait-by-duration time between the commit at j and the next commit
ActiveTime(seq, j) ==
    SumWaits(seq, j, Least({i \in Positions(seq, "commit") : i > j}))

\* C13: for every pulse p[k] of a non-empty list, under a policy with
\* duration-based waits, the wait-by-duration time between the commit that
\* makes p[k] the active waveform and the next commit is p[k].duration: each
\* wait measures how long the committed pulse runs, never another pulse.
C13_WaitIsOwnDuration ==
    (GenerateCall({0, 1}) /\ last.exc = "none") =>
        /\ \A k \in 1..Len(last.pulses) :
              \E j \in InnerCommits(Emitted) :
                  StagedBefore(Emitted, j) = StageOf(last.pulses[k])
        /\ \A j \in InnerCommits(Emitted) :
              \E k \in 1..Len(last.pulses) :
                  /\ StagedBefore(Emitted, j) = StageOf(last.pulses[k])
                  /\ ActiveTime(Emitted, j) = last.pulses[k].t

\* C14: pipelining order: for every i in 1..n-1 the stage carrying p[i] is
\* emitted after the commit that activated p[i-1] and before the wait for
\* p[i-1].duration, the commit that activates p[i] is the next operation after
\* that wait, and no stage is emitted between a wait and the commit after it.
C14_PipeliningOrder ==
    GenerateCall({0, 1, 2}) =>
        /\ \A i \in 2..Len(last.pulses) :
              \E s \in 2..(Len(Emitted) - 2) :
                  /\ View(Emitted[s - 1]) = Commit
                  /\ StagedBefore(Emitted, s - 1) = StageOf(last.pulses[i - 1])
                  /\ View(Emitted[s]) = StageOf(last.pulses[i])
                  /\ View(Emitted[s + 1]) = WaitDuration(last.pulses[i - 1].t)
                  /\ View(Emitted[s + 2]) = Commit
        /\ \A w \in Positions(Emitted, "wait") \cup Positions(Emitted, "wait_trigger") :
              w < Len(Emitted) /\ View(Emitted[w + 1]) = Commit

\* C15: every stage operation emitted by generate, the first stage of p[0]
\* under the Immediate policy included, is issued with the pipelined flag set
\* (suffix "c").
C15_AllStagesPipelined ==
    \A i \in Positions(ops, "stage") : ops[i].suffix = "c"

\* C15 as amended: every stage operation emitted by generate is issued with
\* the pipelined flag set (suffix "c"), except the first stage of p[0] under
\* the Immediate policy (trigger_option 0), which is issued without it
\* (suffix None) and is followed at once by its commit.
C15_StagesPipelinedButImmediateFirst ==
    last.call \in {"generate", "run"} =>
        \A i \in Positions(Emitted, "stage") :
            IF i = 1 /\ last.trigger_option = 0
            THEN /\ Emitted[i].suffix = "None"
                 /\ Len(Emitted) >= 2 => View(Emitted[2]) = Commit
            ELSE Emitted[i].suffix = "c"

C15_Witness ==
    /\ last.call = "generate"
    /\ last.trigger_option = 0
    /\ last.exc = "none"
    /\ Len(last.pulses) = 2
    /\ Emitted[1].suffix = "None"
    /\ Emitted[3].suffix = "c"
    /\ Emitted[Len(Emitted) - 2].suffix = "c"

\* a step in which generate, called directly or by run, ran to its last line
\* on a non-empty pulse list: every device call of lines 165-186 was accepted
GenerateCompletes ==
    /\ last'.call \in {"generate", "run"}
    /\ last'.call = "run" => ~generated
    /\ Len(pulses) > 0
    /\ Len(ops') - Len(ops) >= NCalls(pulses, last'.trigger_option)
    /\ last'.exc # "AttributeError"

\* C16: the generated flag is false for a freshly constructed sequence and
\* stays false across add_pulse calls; it becomes true exactly when a generate
\* call on a non-empty pulse list completes, and once true no add_pulse,
\* generate or run call sets it back to false.
C16_GeneratedFlag ==
    /\ ~generated
    /\ [][ /\ last'.call \in AddCalls => generated' = generated
           /\ generated => generated'
           /\ GenerateCompletes => generated'
           /\ (~generated /\ generated') => GenerateCompletes ]_vars

C16_Witness ==
    /\ last.call \in AddCalls
    /\ last.was_generated
    /\ generated
    /\ ncalls = 2
    /\ Len(ops) > 2 * NCalls(last.pulses, 0)

\* C17: every add operation (PulseSequence.add_pulse, QubitPulseSequence
\* add_pulse, add_x_pulse, add_y_pulse) appends exactly one pulse at the end
\* of the pulse list, leaves the pulses added before and their order
\* unchanged, emits no device operation and does not change the generated
\* flag; generate and run never change the pulse list.
C17_AddFrame ==
    [][ /\ last'.call \in AddCalls =>
              /\ Len(pulses') = Len(pulses) + 1
              /\ SubSeq(pulses', 1, Len(pulses)) = pulses
              /\ ops' = ops
              /\ generated' = generated
        /\ last'.call \in {"generate", "run"} => pulses' = pulses ]_vars

C17_Witness ==
    /\ last.call = "add_x_pulse"
    /\ Len(pulses) = 2
    /\ last.pulses = <<pulses[1]>>
    /\ pulses[1] # pulses[2]
    /\ Len(ops) = 1
    /\ Emitted = <<>>

RECURSIVE Alternates(_, _, _)
\* From position i on, with staged telling whether a stage is waiting for its
\* commit, the stages and commits of seq alternate: no commit without a stage
\* staged since the commit before it, no stage over one not yet committed.
Alternates(seq, i, staged) ==
    IF i > Len(seq) THEN TRUE
    ELSE LET kind == View(seq[i]).kind IN
         IF kind = "stage" THEN ~staged /\ Alternates(seq, i + 1, TRUE)
         ELSE IF kind = "commit" THEN staged /\ Alternates(seq, i + 1, FALSE)
         ELSE Alternates(seq, i + 1, staged)

C19_RunOnEmptyEmitsNothing ==
    (last.call = "run" /\ Len(last.pulses) = 0) => Emitted = <<>>

\* What run does on an empty pulse list: generate warns and returns, line 196
\* still calls dds.run(self.slot), and does so on every run call.
RunOnEmptyOfCode ==
    (last.call = "run" /\ Len(last.pulses) = 0 /\ ~failed) =>
        /\ Emitted = <<dds_run(slot)>>
        /\ last.diag = <<WarnEmpty>>
        /\ ~generated

TypeOK ==
    /\ generated \in BOOLEAN
    /\ failed \in BOOLEAN
    /\ Len(pulses) <= MaxPulses
    /\ ncalls \in 0..MaxCalls
====
